---- MODULE Spec2Model ----
(***************************************************************************)
(* A model of kafka_lens.py: one CLI invocation of the KafkaLens tool.     *)
(* The Kafka admin client, the consumer, the clock and the user at the     *)
(* prompt are the environment: every answer they give is drawn from a      *)
(* small set at the moment the code asks.                                  *)
(*                                                                         *)
(* Time is counted in hours (the code counts milliseconds); names of       *)
(* topics and prompt responses are sequences of one-character strings so   *)
(* that startswith() and lower() are computed, not assumed.                *)
(***************************************************************************)
EXTENDS Integers, Sequences, FiniteSets, TLC

(* ------------------------------ bounds --------------------------------- *)

\* the clock advances by at most this many hours between two reads of it
MaxClockStep == 1

\* brokers / nodes lists of describe_cluster() hold at most this many entries
MaxBrokers == 2

\* the greatest number of command methods called on one KafkaLens instance
MaxCalls == 3

(* ------------------------- program constants --------------------------- *)

DefaultLagThreshold == 1000
DefaultStaleDays == 30
DefaultUnusedDays == 90
\* 1000 * 60 * 60 * 24 milliseconds, in hours
HoursPerDay == 24

\* the hour the invocation starts at: day 100
StartOfRun == 100 * HoursPerDay

(* ------------------------------ strings -------------------------------- *)

\* str.lower() on one character (the characters the model uses)
LowerChar(c) ==
    CASE c = "Y" -> "y"
      [] c = "N" -> "n"
      [] c = "E" -> "e"
      [] c = "S" -> "s"
      [] OTHER -> c

\* str.lower()
Lower(s) == [k \in 1..Len(s) |-> LowerChar(s[k])]

\* str.startswith(prefix)
StartsWith(s, prefix) ==
    /\ Len(s) >= Len(prefix)
    /\ SubSeq(s, 1, Len(prefix)) = prefix

\* topic.startswith('__')
IsInternal(topic) == StartsWith(topic, <<"_", "_">>)

\* what the user may type at the prompt; <<>> is a bare Enter
Responses ==
    { <<>>, <<"y">>, <<"Y">>, <<"n">>, <<"N">>,
      <<"y", "e", "s">>, <<"Y", "E", "S">>, <<" ", "y">>, <<"y", " ">> }

\* click.prompt(text, default='N'): an empty input yields the default
Prompt(typed, default) == IF typed = <<>> THEN default ELSE typed

\* a variant that cancels only on an explicit "n"
NotConfirmed_OnlyN(confirm) == Lower(confirm) = <<"n">>

\* confirm.lower() != 'y'
NotConfirmed(confirm) == Lower(confirm) # <<"y">>

(* -------------------------- the command line --------------------------- *)

Commands ==
    { "health_check", "check_lag", "find_stale_consumers",
      "find_unused_topics", "delete_consumer_group", "delete_topic" }

\* self.config.get(key, default) for the three keys the commands read
DefaultConfig ==
    [lag_threshold |-> DefaultLagThreshold, stale_consumer_days |-> DefaultStaleDays,
     unused_topic_days |-> DefaultUnusedDays]

\* the config.yml files an invocation of command c is run with: the key the
\* command reads is absent (the default applies) or set
ConfigsFor(c) ==
    CASE c = "check_lag" ->
           { [DefaultConfig EXCEPT !.lag_threshold = v] : v \in {DefaultLagThreshold, 100, 0} }
      [] c = "find_stale_consumers" ->
           { [DefaultConfig EXCEPT !.stale_consumer_days = v] : v \in {DefaultStaleDays, 1, 0} }
      [] c = "find_unused_topics" ->
           { [DefaultConfig EXCEPT !.unused_topic_days = v] : v \in {DefaultUnusedDays, 1} }
      [] OTHER -> { DefaultConfig }

VARIABLES
    pc,             \* where the invocation is
    cmd,            \* the sub-command given on the command line
    config,         \* self.config
    admin_client,   \* self.admin_client: "None", "open" or "closed"
    consumer,       \* self.consumer: "None", "open" or "closed"
    exit_code,      \* -1 while the process runs, then its exit code
    out,            \* the top-level lines echoed so far
    typed,          \* what the user typed at the prompt
    confirm,        \* the value click.prompt returned
    client_calls,   \* the destructive calls made on the admin client
    cluster_topics, \* the cluster: topic -> partition -> replicas and isr
    total_brokers,  \* health_check: len(metadata['brokers'])
    connected_brokers, \* health_check: len(metadata['nodes'])
    topics,         \* the set admin_client.list_topics() returned
    topic_metadata, \* health_check: what describe_topics returned
    urp_count,      \* health_check: under-replicated partitions counted
    groups,         \* the list admin_client.list_consumer_groups() returned
    group_idx,      \* position of "for group_id in groups"
    warned,         \* the items a per-item warning was echoed for, in order
    raised,         \* the client: the (item, call) pairs of the per-item calls
                    \* that raised, in order
    committed_offsets, \* check_lag: list_consumer_group_offsets(group_id)
    partitions,     \* check_lag: list(committed_offsets.keys())
    latest_offsets, \* check_lag: get_topic_end_offsets(partitions)
    log_end,        \* the cluster: each partition's end offset at that query
    tp_idx,         \* check_lag: position of "for tp in partitions"
    total_lag,      \* check_lag: the lag accumulated for the current group
    group_lags,     \* check_lag: group -> total lag
    high_lag_groups, \* check_lag: the (group, lag) pairs over the threshold
    lag_report,     \* check_lag: the lines of the lag report
    clock,          \* the wall clock, in hours: what datetime.now() last gave
    threshold_ts,   \* find_*: the instant before which an item is too old
    offsets,        \* find_stale_consumers: list_consumer_group_offsets(group_id)
    stale_groups,   \* find_stale_consumers: the (group, reason) pairs
    non_internal_topics, \* find_unused_topics: the topics to scan, in order
    topic_idx,      \* find_unused_topics: position of "for topic in ..."
    topic_partitions, \* find_unused_topics: partitions_for_topic(topic), in order
    partition_idx,  \* find_unused_topics: position of "for partition in partitions"
    end_offsets,    \* find_unused_topics: consumer.end_offsets(partitions)
    latest_timestamp, \* find_unused_topics: the newest timestamp seen for the topic
    last_message,   \* the cluster: timestamp of the last record of each
                    \* partition of the current topic the scan has sought to
    fetchable,      \* the consumer: (topic, partition) -> timestamp of the first
                    \* record a poll would hand over for it
    unused_topics,  \* find_unused_topics: the (topic, reason) pairs
    commits,        \* the cluster: the (topic, partition) positions the consumer
                    \* has committed
    call_results,   \* the client: how each destructive call ended, in order
    constructed,    \* the clients constructed so far: (class, command, number
                    \* of the call) triples
    calls,          \* the number of command methods called on the instance
    interrupted     \* whether the user has interrupted the process

proc_vars == <<pc, cmd, config, admin_client, consumer, exit_code, out,
               constructed, calls, interrupted>>
delete_vars == <<typed, confirm, client_calls, call_results>>
health_vars == <<cluster_topics, total_brokers, connected_brokers, topics,
                 topic_metadata, urp_count>>
scan_vars == <<groups, group_idx, warned, raised>>
lag_vars == <<committed_offsets, partitions, latest_offsets, log_end, tp_idx,
              total_lag, group_lags, high_lag_groups, lag_report>>
stale_vars == <<clock, threshold_ts, offsets, stale_groups>>
unused_vars == <<non_internal_topics, topic_idx, topic_partitions, partition_idx,
                 end_offsets, latest_timestamp, last_message, fetchable, commits,
                 unused_topics>>
vars == <<proc_vars, delete_vars, health_vars, scan_vars, lag_vars, stale_vars,
          unused_vars>>

Echo(line) == out' = Append(out, line)

\* a variant of the handler that swallows the exception without a word
Warn_Silent(item, call) ==
    /\ raised' = Append(raised, <<item, call>>)
    /\ UNCHANGED warned

\* the per-item handlers (lines 237-239, 292-294, 351-353): `call` raised
\* for `item`; a warning naming the item is echoed and the loop continues
Warn(item, call) ==
    /\ raised' = Append(raised, <<item, call>>)
    /\ warned' = Append(warned, item)

\* where a command goes once it holds its admin client
Body(c) ==
    CASE c = "delete_consumer_group" -> "prompt_group"
      [] c = "delete_topic" -> "prompt_topic"
      [] c = "health_check" -> "health_check"
      [] c = "check_lag" -> "check_lag"
      [] c = "find_stale_consumers" -> "find_stale_consumers"
      [] c = "find_unused_topics" -> "get_consumer"
      [] OTHER -> "returned"

Init ==
    /\ pc = "get_admin"
    /\ cmd \in Commands
    /\ config \in ConfigsFor(cmd)
    /\ admin_client = "None"
    /\ consumer = "None"
    /\ exit_code = -1
    /\ out = <<>>
    /\ typed = <<>>
    /\ confirm = <<>>
    /\ client_calls = <<>>
    /\ cluster_topics = <<>>
    /\ total_brokers = 0
    /\ connected_brokers = 0
    /\ topics = {}
    /\ topic_metadata = <<>>
    /\ urp_count = 0
    /\ groups = <<>>
    /\ group_idx = 1
    /\ warned = <<>>
    /\ raised = <<>>
    /\ committed_offsets = <<>>
    /\ partitions = <<>>
    /\ latest_offsets = <<>>
    /\ log_end = <<>>
    /\ tp_idx = 1
    /\ total_lag = 0
    /\ group_lags = <<>>
    /\ high_lag_groups = <<>>
    /\ lag_report = {}
    /\ clock = StartOfRun
    /\ threshold_ts = 0
    /\ offsets = <<>>
    /\ stale_groups = <<>>
    /\ non_internal_topics = <<>>
    /\ topic_idx = 1
    /\ topic_partitions = <<>>
    /\ partition_idx = 1
    /\ end_offsets = <<>>
    /\ latest_timestamp = 0
    /\ last_message = <<>>
    /\ fetchable = <<>>
    /\ unused_topics = <<>>
    /\ commits = {}
    /\ call_results = <<>>
    /\ constructed = <<>>
    /\ calls = 1
    /\ interrupted = FALSE

(* ---------------------------- connections ------------------------------ *)

\* a variant that connects anew on every call
GetAdminClient_Always ==
    /\ pc = "get_admin"
    /\ \E connected \in BOOLEAN :
         IF connected
         THEN /\ admin_client' = "open"
              /\ constructed' = Append(constructed, <<"KafkaAdminClient", cmd, calls>>)
              /\ pc' = Body(cmd)
              /\ UNCHANGED <<exit_code, out>>
         ELSE /\ Echo("Error connecting to Kafka cluster")
              /\ exit_code' = 1
              /\ pc' = "exited"
              /\ UNCHANGED <<admin_client, constructed>>
    /\ UNCHANGED <<cmd, config, consumer, calls, interrupted, delete_vars,
                   health_vars, scan_vars, lag_vars, stale_vars, unused_vars>>

\* _get_admin_client: create the client on first use; a failure to connect
\* (or to resolve the bootstrap servers) ends the process with code 1
GetAdminClient ==
    /\ pc = "get_admin"
    /\ IF admin_client = "None"
       THEN \E connected \in BOOLEAN :
              IF connected
              THEN /\ admin_client' = "open"
                   /\ constructed' = Append(constructed, <<"KafkaAdminClient", cmd, calls>>)
                   /\ pc' = Body(cmd)
                   /\ UNCHANGED <<exit_code, out>>
              ELSE /\ Echo("Error connecting to Kafka cluster")
                   /\ exit_code' = 1
                   /\ pc' = "exited"
                   /\ UNCHANGED <<admin_client, constructed>>
       ELSE /\ pc' = Body(cmd)
            /\ UNCHANGED <<admin_client, constructed, exit_code, out>>
    /\ UNCHANGED <<cmd, config, consumer, calls, interrupted, delete_vars,
                   health_vars, scan_vars, lag_vars, stale_vars, unused_vars>>

\* a variant of the configuration that lets the consumer commit what it polls
consumer_config_AutoCommit ==
    [auto_offset_reset |-> "latest", enable_auto_commit |-> TRUE]

\* _get_consumer, lines 129-134: what the consumer is created with
consumer_config ==
    [auto_offset_reset |-> "latest", enable_auto_commit |-> FALSE]

\* _get_consumer: create the consumer on first use; a failure ends the
\* process with code 1
GetConsumer ==
    /\ pc = "get_consumer"
    /\ IF consumer = "None"
       THEN \E connected \in BOOLEAN :
              IF connected
              THEN /\ consumer' = "open"
                   /\ constructed' = Append(constructed, <<"KafkaConsumer", cmd, calls>>)
                   /\ pc' = "find_unused_topics"
                   /\ UNCHANGED <<exit_code, out>>
              ELSE /\ Echo("Error creating Kafka consumer")
                   /\ exit_code' = 1
                   /\ pc' = "exited"
                   /\ UNCHANGED <<consumer, constructed>>
       ELSE /\ pc' = "find_unused_topics"
            /\ UNCHANGED <<consumer, constructed, exit_code, out>>
    /\ UNCHANGED <<cmd, config, admin_client, calls, interrupted, delete_vars,
                   health_vars, scan_vars, lag_vars, stale_vars, unused_vars>>

(* ---------------------------- health_check ----------------------------- *)

\* the broker ids replicas and in-sync replicas are drawn from
PartitionInfos ==
    { [replicas |-> {1, 2}, isr |-> {1, 2}],
      [replicas |-> {1, 2}, isr |-> {1}] }

\* the topics a cluster may hold: one internal, one that only looks like it,
\* one ordinary
AllTopics == { <<"_", "_", "c">>, <<"_", "x">>, <<"o">> }

PartitionSets == { {0}, {0, 1} }

\* every cluster metadata the admin client may report
Clusters ==
    UNION { [ts -> UNION { [ps -> PartitionInfos] : ps \in PartitionSets }]
            : ts \in SUBSET AllTopics }

\* a variant that drops every topic starting with one underscore
NonInternal_OneUnderscore(ts) == { t \in ts : ~StartsWith(t, <<"_">>) }

\* [topic for topic in topics if not topic.startswith('__')]
NonInternal(ts) == { t \in ts : ~IsInternal(t) }

\* the (topic, partition) pairs of a describe_topics result
PartitionsOf(meta) ==
    UNION { { <<t, p>> : p \in DOMAIN meta[t] } : t \in DOMAIN meta }

\* lines 172-181: the loop that counts a partition when isr_count < replicas_count
RECURSIVE CountUnderReplicated(_, _)
CountUnderReplicated(meta, todo) ==
    IF todo = {} THEN 0
    ELSE LET tp == CHOOSE x \in todo : TRUE
             partition_info == meta[tp[1]][tp[2]]
             replicas_count == Cardinality(partition_info.replicas)
             isr_count == Cardinality(partition_info.isr)
         IN  (IF isr_count < replicas_count THEN 1 ELSE 0)
             + CountUnderReplicated(meta, todo \ {tp})

\* a variant that looks at the brokers alone
IsHealthy_BrokersOnly(connected, total, urp) == connected = total

\* line 194: the overall verdict
IsHealthy(connected, total, urp) == connected = total /\ urp = 0

\* health_check, lines 159-200. Any of the three client calls may raise; the
\* handler of line 199 reports it and the command returns.
HealthCheck ==
    /\ pc = "health_check"
    /\ \E failing \in {"none", "describe_cluster", "list_topics", "describe_topics"},
          total \in 1..MaxBrokers, connected \in 0..MaxBrokers,
          cluster \in Clusters :
         LET non_internal == NonInternal(DOMAIN cluster)
             meta == [t \in non_internal |-> cluster[t]]
             urp == IF non_internal # {}
                    THEN CountUnderReplicated(meta, PartitionsOf(meta))
                    ELSE 0
         IN
         \* describe_topics is only called for a non-empty list
         /\ failing = "describe_topics" => non_internal # {}
         /\ IF failing = "describe_cluster"
            THEN UNCHANGED health_vars
            ELSE /\ total_brokers' = total
                 /\ connected_brokers' = connected
                 /\ IF failing = "list_topics"
                    THEN UNCHANGED <<cluster_topics, topics, topic_metadata, urp_count>>
                    ELSE /\ cluster_topics' = cluster
                         /\ topics' = DOMAIN cluster
                         /\ IF failing = "describe_topics"
                            THEN UNCHANGED <<topic_metadata, urp_count>>
                            ELSE /\ topic_metadata' = meta
                                 /\ urp_count' = urp
         /\ IF failing # "none"
            THEN Echo("Error during health check")
            ELSE IF IsHealthy(connected, total, urp)
                 THEN Echo("Cluster is healthy!")
                 ELSE Echo("Cluster has issues that need attention.")
    /\ pc' = "returned"
    /\ UNCHANGED <<cmd, config, admin_client, consumer, constructed, calls,
                   interrupted, exit_code, delete_vars,
                   scan_vars, lag_vars, stale_vars, unused_vars>>

(* ------------------------------ check_lag ------------------------------ *)

\* the lists list_consumer_groups() may return
GroupLists == { <<>>, <<"g1">>, <<"g1", "g2">> }

\* the (topic, partition) pairs consumer groups commit to
TopicPartitions == { <<"topicA", 0>>, <<"topicA", 1>> }

CommittedOffsets == { 100, 1500 }
EndOffsets == { 0, 350, 1200 }

\* the results of list_consumer_group_offsets(): a map from the partitions the
\* group has committed to (possibly none) to offset and commit timestamp
OffsetMaps(positions, timestamps) ==
    UNION { [ps -> [offset : positions, commit_timestamp : timestamps]]
            : ps \in SUBSET TopicPartitions }

\* list(d.keys()): the keys of a dict in one fixed order
RECURSIVE Keys(_)
Keys(S) ==
    IF S = {} THEN <<>>
    ELSE LET k == CHOOSE x \in S : TRUE IN <<k>> \o Keys(S \ {k})

Max(a, b) == IF a >= b THEN a ELSE b

\* a variant without the floor at zero
PartitionLag_Unclamped(latest_offset, committed_offset) ==
    latest_offset - committed_offset

\* line 232: partition_lag = max(0, latest_offset - committed_offset)
PartitionLag(latest_offset, committed_offset) ==
    Max(0, latest_offset - committed_offset)

\* a variant that flags a lag equal to the threshold
IsHighLag_AtLeast(lag, lag_threshold) == lag >= lag_threshold

\* line 250: lag > lag_threshold
IsHighLag(lag, lag_threshold) == lag > lag_threshold

\* the group the scan is at
group_id == groups[group_idx]

\* check_lag, lines 207-212: read the threshold and list the groups; a failure
\* of the listing is reported by the handler of line 261
CheckLagBegin ==
    /\ pc = "check_lag"
    /\ \E failing \in BOOLEAN, listed \in GroupLists :
         IF failing
         THEN /\ Echo("Error during lag check")
              /\ pc' = "returned"
              /\ UNCHANGED <<groups, group_idx, group_lags>>
         ELSE /\ groups' = listed
              /\ group_idx' = 1
              /\ group_lags' = <<>>
              /\ pc' = "lag_group"
              /\ UNCHANGED out
    /\ UNCHANGED <<cmd, config, admin_client, consumer, constructed, calls,
                   interrupted, exit_code, delete_vars,
                   health_vars, warned, raised, committed_offsets, partitions,
                   latest_offsets, log_end, tp_idx, total_lag, high_lag_groups,
                   lag_report, stale_vars, unused_vars>>

\* check_lag, lines 214-227 and 237-239: the two queries for one group. Either
\* may raise: the group is warned about and the loop goes on. The end-offset
\* answer may lack some of the partitions asked for (line 229 allows for it).
CheckLagGroup ==
    /\ pc = "lag_group"
    /\ group_idx <= Len(groups)
    /\ \/ /\ Warn(group_id, "list_consumer_group_offsets")
          /\ group_idx' = group_idx + 1
          /\ UNCHANGED <<pc, committed_offsets, partitions, latest_offsets,
                         log_end, tp_idx, total_lag>>
       \/ \E committed \in OffsetMaps(CommittedOffsets, {0}) :
            /\ committed_offsets' = committed
            /\ IF committed = <<>>
               THEN \* line 219: if not committed_offsets: continue
                    /\ group_idx' = group_idx + 1
                    /\ UNCHANGED <<pc, warned, raised, partitions, latest_offsets,
                                   log_end, tp_idx, total_lag>>
               ELSE /\ partitions' = Keys(DOMAIN committed)
                    /\ \/ /\ Warn(group_id, "get_topic_end_offsets")
                          /\ group_idx' = group_idx + 1
                          /\ UNCHANGED <<pc, latest_offsets, log_end, tp_idx,
                                         total_lag>>
                       \/ \E ends \in [DOMAIN committed -> EndOffsets],
                             answered \in SUBSET DOMAIN committed :
                            /\ log_end' = ends
                            /\ latest_offsets' = [tp \in answered |-> ends[tp]]
                            /\ total_lag' = 0
                            /\ tp_idx' = 1
                            /\ pc' = "lag_partition"
                            /\ UNCHANGED <<warned, raised, group_idx>>
    /\ UNCHANGED <<cmd, config, admin_client, consumer, constructed, calls,
                   interrupted, exit_code, out,
                   delete_vars, health_vars, groups, group_lags,
                   high_lag_groups, lag_report, stale_vars, unused_vars>>

\* check_lag, lines 228-233: one partition of the current group
CheckLagPartition ==
    /\ pc = "lag_partition"
    /\ tp_idx <= Len(partitions)
    /\ LET tp == partitions[tp_idx] IN
         total_lag' =
             IF tp \in DOMAIN latest_offsets
             THEN total_lag + PartitionLag(latest_offsets[tp], committed_offsets[tp].offset)
             ELSE total_lag
    /\ tp_idx' = tp_idx + 1
    /\ UNCHANGED <<proc_vars, delete_vars, health_vars, scan_vars,
                   committed_offsets, partitions, latest_offsets, log_end,
                   group_lags, high_lag_groups, lag_report, stale_vars,
                   unused_vars>>

\* check_lag, line 235: group_lags[group_id] = total_lag
CheckLagStore ==
    /\ pc = "lag_partition"
    /\ tp_idx > Len(partitions)
    /\ group_lags' = [g \in DOMAIN group_lags \cup {group_id} |->
                        IF g = group_id THEN total_lag ELSE group_lags[g]]
    /\ group_idx' = group_idx + 1
    /\ pc' = "lag_group"
    /\ UNCHANGED <<cmd, config, admin_client, consumer, constructed, calls,
                   interrupted, exit_code, out,
                   delete_vars, health_vars, groups, warned, raised, committed_offsets,
                   partitions, latest_offsets, log_end, tp_idx, total_lag,
                   high_lag_groups, lag_report, stale_vars,
                   unused_vars>>

\* check_lag, lines 241-259: the report
CheckLagReport ==
    /\ pc = "lag_group"
    /\ group_idx > Len(groups)
    /\ LET lag_threshold == config.lag_threshold
           high == SelectSeq(groups, LAMBDA g :
                       /\ g \in DOMAIN group_lags
                       /\ IsHighLag(group_lags[g], lag_threshold))
       IN
       IF DOMAIN group_lags = {}
       THEN /\ Echo("No consumer groups found or accessible.")
            /\ UNCHANGED <<high_lag_groups, lag_report>>
       ELSE /\ high_lag_groups' = [k \in 1..Len(high) |-> <<high[k], group_lags[high[k]]>>]
            /\ lag_report' = { [group |-> g, lag |-> group_lags[g],
                                high |-> IsHighLag(group_lags[g], lag_threshold)]
                               : g \in DOMAIN group_lags }
            /\ IF high # <<>>
               THEN Echo("consumer group(s) have high lag!")
               ELSE Echo("All consumer groups are within normal lag thresholds.")
    /\ pc' = "returned"
    /\ UNCHANGED <<cmd, config, admin_client, consumer, constructed, calls,
                   interrupted, exit_code, delete_vars,
                   health_vars, scan_vars, committed_offsets, partitions,
                   latest_offsets, log_end, tp_idx, total_lag, group_lags,
                   stale_vars, unused_vars>>

(* ------------------------- find_stale_consumers ------------------------ *)

\* the commit timestamps the groups may hold, in hours: around 30 days, one
\* day and no time before the start of the run, and one after it
CommitTimes == { 1674, 1679, 1680, 1681, 2375, 2376, 2377, 2400, 2405 }

\* f"{days_old:.1f}" for an age of `hours` >= 0: the number of tenths of a
\* day nearest to hours / 24, a tie going to the even one
OneDecimal(hours) ==
    LET q == (10 * hours) \div HoursPerDay
        r == (10 * hours) % HoursPerDay
    IN  IF 2 * r < HoursPerDay THEN q
        ELSE IF 2 * r > HoursPerDay THEN q + 1
        ELSE IF q % 2 = 0 THEN q ELSE q + 1

\* max(...) over a non-empty set of numbers
MaxOf(S) == CHOOSE m \in S : \A x \in S : x <= m

\* a variant that takes the oldest commit
LatestCommit_Oldest(offs) ==
    CHOOSE m \in { offs[tp].commit_timestamp : tp \in DOMAIN offs } :
        \A tp \in DOMAIN offs : m <= offs[tp].commit_timestamp

\* line 286: max(offset.commit_timestamp for offset in offsets.values())
LatestCommit(offs) ==
    MaxOf({ offs[tp].commit_timestamp : tp \in DOMAIN offs })

NoCommits == [text |-> "No commits", tenths |-> 0]
DaysOld(hours) == [text |-> "days old", tenths |-> OneDecimal(hours)]

\* a variant that passes over a group without commits
StaleEntries_SkipEmpty(gid, offs, threshold, now) ==
    IF offs # <<>> /\ LatestCommit(offs) < threshold
    THEN << <<gid, DaysOld(now - LatestCommit(offs))>> >>
    ELSE <<>>

\* lines 280-290: what one group adds to stale_groups; `now` is the clock
\* read at line 289
StaleEntries(gid, offs, threshold, now) ==
    IF offs = <<>>
    THEN << <<gid, NoCommits>> >>
    ELSE IF LatestCommit(offs) < threshold
         THEN << <<gid, DaysOld(now - LatestCommit(offs))>> >>
         ELSE <<>>

\* find_stale_consumers, lines 269-274: the threshold instant, from one read
\* of the clock, and the list of groups
FindStaleBegin ==
    /\ pc = "find_stale_consumers"
    /\ \E step \in 0..MaxClockStep, failing \in BOOLEAN, listed \in GroupLists :
         /\ clock' = clock + step
         /\ threshold_ts' = clock' - config.stale_consumer_days * HoursPerDay
         /\ IF failing
            THEN /\ Echo("Error finding stale consumers")
                 /\ pc' = "returned"
                 /\ UNCHANGED <<groups, group_idx, stale_groups>>
            ELSE /\ groups' = listed
                 /\ group_idx' = 1
                 /\ stale_groups' = <<>>
                 /\ pc' = "stale_group"
                 /\ UNCHANGED out
    /\ UNCHANGED <<cmd, config, admin_client, consumer, constructed, calls,
                   interrupted, exit_code, delete_vars,
                   health_vars, warned, raised, lag_vars, offsets, unused_vars>>

\* find_stale_consumers, lines 276-294: one group. The clock is read again
\* (line 289) only for a group that is stale by age.
FindStaleGroup ==
    /\ pc = "stale_group"
    /\ group_idx <= Len(groups)
    /\ \/ /\ Warn(group_id, "list_consumer_group_offsets")
          /\ UNCHANGED <<clock, offsets, stale_groups>>
       \/ \E answer \in OffsetMaps({0}, CommitTimes) :
          \E step \in IF answer # <<>> /\ LatestCommit(answer) < threshold_ts
                      THEN 0..MaxClockStep ELSE {0} :
            /\ offsets' = answer
            /\ clock' = clock + step
            /\ stale_groups' =
                   stale_groups \o StaleEntries(group_id, answer, threshold_ts, clock')
            /\ UNCHANGED <<warned, raised>>
    /\ group_idx' = group_idx + 1
    /\ UNCHANGED <<proc_vars, delete_vars, health_vars, groups, lag_vars,
                   threshold_ts, unused_vars>>

\* find_stale_consumers, lines 296-302: the report prints stale_groups
FindStaleReport ==
    /\ pc = "stale_group"
    /\ group_idx > Len(groups)
    /\ IF stale_groups # <<>>
       THEN Echo("Found stale consumer groups:")
       ELSE Echo("No stale consumer groups found.")
    /\ pc' = "returned"
    /\ UNCHANGED <<cmd, config, admin_client, consumer, constructed, calls,
                   interrupted, exit_code, delete_vars,
                   health_vars, scan_vars, lag_vars, stale_vars, unused_vars>>

(* -------------------------- find_unused_topics ------------------------- *)

\* the timestamps a record may carry, in hours: none (0), 90 days before the
\* start of the run, and the start of the run
MessageTimes == { 0, 240, 2400 }

\* the end offsets a partition may have
TopicEndOffsets == { 0, 50 }

\* partitions_for_topic(): None or empty, or a set of partition numbers
PartitionAnswers == { {}, {0}, {0, 1} }

\* a variant without the test that a timestamp was seen at all
UnusedEntries_AnyTimestamp(topic, latest, threshold, now) ==
    IF latest < threshold
    THEN << <<topic, DaysOld(now - latest)>> >>
    ELSE <<>>

\* lines 347-349: what one topic adds to unused_topics; `now` is the clock
\* read at line 348
UnusedEntries(topic, latest, threshold, now) ==
    IF latest > 0 /\ latest < threshold
    THEN << <<topic, DaysOld(now - latest)>> >>
    ELSE <<>>

\* the topic the scan is at
topic == non_internal_topics[topic_idx]

\* lines 343-345: the newest timestamp among latest and the first records of
\* the polled partitions whose partition number is `partition`
NewestOf(latest, messages, partition) ==
    MaxOf({latest} \cup { messages[tp] : tp \in { x \in DOMAIN messages : x[2] = partition } })

\* find_unused_topics, lines 313-321: the threshold instant and the topics
FindUnusedBegin ==
    /\ pc = "find_unused_topics"
    /\ \E step \in 0..MaxClockStep, failing \in BOOLEAN, listed \in SUBSET AllTopics :
         /\ clock' = clock + step
         /\ threshold_ts' = clock' - config.unused_topic_days * HoursPerDay
         /\ IF failing
            THEN /\ Echo("Error finding unused topics")
                 /\ pc' = "returned"
                 /\ UNCHANGED <<topics, non_internal_topics, topic_idx, unused_topics>>
            ELSE /\ topics' = listed
                 /\ non_internal_topics' = Keys(NonInternal(listed))
                 /\ topic_idx' = 1
                 /\ unused_topics' = <<>>
                 /\ pc' = "unused_topic"
                 /\ UNCHANGED out
    /\ UNCHANGED <<cmd, config, admin_client, consumer, constructed, calls,
                   interrupted, exit_code, delete_vars,
                   cluster_topics, total_brokers, connected_brokers,
                   topic_metadata, urp_count, scan_vars, lag_vars, offsets,
                   stale_groups, topic_partitions, partition_idx, end_offsets,
                   latest_timestamp, last_message, fetchable, commits>>

\* find_unused_topics, lines 324-334 and 351-353: the partitions of one topic
\* and their end offsets; either query may raise
FindUnusedTopic ==
    /\ pc = "unused_topic"
    /\ topic_idx <= Len(non_internal_topics)
    /\ \/ /\ Warn(topic, "partitions_for_topic")
          /\ topic_idx' = topic_idx + 1
          /\ UNCHANGED <<pc, topic_partitions, partition_idx, end_offsets,
                         latest_timestamp, last_message>>
       \/ \E answer \in PartitionAnswers :
            /\ topic_partitions' = Keys(answer)
            /\ IF answer = {}
               THEN \* line 327: if not partitions: continue
                    /\ topic_idx' = topic_idx + 1
                    /\ UNCHANGED <<pc, warned, raised, partition_idx, end_offsets,
                                   latest_timestamp, last_message>>
               ELSE \/ /\ Warn(topic, "end_offsets")
                       /\ topic_idx' = topic_idx + 1
                       /\ UNCHANGED <<pc, partition_idx, end_offsets,
                                      latest_timestamp, last_message>>
                    \/ \E ends \in [answer -> TopicEndOffsets] :
                         /\ end_offsets' = ends
                         /\ latest_timestamp' = 0
                         /\ partition_idx' = 1
                         /\ last_message' = <<>>
                         /\ pc' = "unused_partition"
                         /\ UNCHANGED <<warned, raised, topic_idx>>
    /\ UNCHANGED <<cmd, config, admin_client, consumer, constructed, calls,
                   interrupted, exit_code, out,
                   delete_vars, health_vars, groups, group_idx, lag_vars,
                   stale_vars, non_internal_topics, fetchable, commits,
                   unused_topics>>

\* find_unused_topics, lines 335-345: one partition. With messages in it, the
\* consumer is sought to its last record (timestamp `written`) and polled
\* once; the poll hands over the first record of any of the partitions the
\* consumer has something to fetch for, possibly of none. seek and poll may
\* raise.
FindUnusedPartition ==
    /\ pc = "unused_partition"
    /\ partition_idx <= Len(topic_partitions)
    /\ LET partition == topic_partitions[partition_idx] IN
       IF end_offsets[partition] > 0
       THEN \/ /\ Warn(topic, "seek")
               /\ topic_idx' = topic_idx + 1
               /\ pc' = "unused_topic"
               /\ UNCHANGED <<partition_idx, latest_timestamp, last_message,
                              fetchable, commits>>
            \/ \E written \in MessageTimes :
                 LET sought == [tp \in DOMAIN fetchable \cup { <<topic, partition>> } |->
                                  IF tp = <<topic, partition>> THEN written
                                  ELSE fetchable[tp]]
                 IN
                 /\ last_message' =
                        [q \in DOMAIN last_message \cup {partition} |->
                            IF q = partition THEN written ELSE last_message[q]]
                 /\ \/ /\ Warn(topic, "poll")
                       /\ fetchable' = sought
                       /\ topic_idx' = topic_idx + 1
                       /\ pc' = "unused_topic"
                       /\ UNCHANGED <<partition_idx, latest_timestamp, commits>>
                    \/ \E polled \in SUBSET DOMAIN sought :
                         LET messages == [tp \in polled |-> sought[tp]] IN
                         /\ fetchable' = [tp \in DOMAIN sought \ polled |-> sought[tp]]
                         /\ commits' = IF consumer_config.enable_auto_commit
                                        THEN commits \cup polled ELSE commits
                         /\ latest_timestamp' =
                                NewestOf(latest_timestamp, messages, partition)
                         /\ partition_idx' = partition_idx + 1
                         /\ UNCHANGED <<pc, warned, raised, topic_idx>>
       ELSE /\ partition_idx' = partition_idx + 1
            /\ UNCHANGED <<pc, warned, raised, topic_idx, latest_timestamp,
                           last_message, fetchable, commits>>
    /\ UNCHANGED <<cmd, config, admin_client, consumer, constructed, calls,
                   interrupted, exit_code, out,
                   delete_vars, health_vars, groups, group_idx, lag_vars,
                   stale_vars, non_internal_topics, topic_partitions,
                   end_offsets, unused_topics>>

\* find_unused_topics, lines 347-349: the verdict on the current topic. The
\* clock is read again (line 348) only for a topic that is listed.
FindUnusedClassify ==
    /\ pc = "unused_partition"
    /\ partition_idx > Len(topic_partitions)
    /\ \E step \in IF UnusedEntries(topic, latest_timestamp, threshold_ts, clock) # <<>>
                   THEN 0..MaxClockStep ELSE {0} :
         /\ clock' = clock + step
         /\ unused_topics' =
                unused_topics \o UnusedEntries(topic, latest_timestamp, threshold_ts, clock')
    /\ topic_idx' = topic_idx + 1
    /\ pc' = "unused_topic"
    /\ UNCHANGED <<cmd, config, admin_client, consumer, constructed, calls,
                   interrupted, exit_code, out,
                   delete_vars, health_vars, scan_vars, lag_vars, threshold_ts,
                   offsets, stale_groups, non_internal_topics, topic_partitions,
                   partition_idx, end_offsets, latest_timestamp, last_message,
                   fetchable, commits>>

\* find_unused_topics, lines 355-361: the report prints unused_topics
FindUnusedReport ==
    /\ pc = "unused_topic"
    /\ topic_idx > Len(non_internal_topics)
    /\ IF unused_topics # <<>>
       THEN Echo("Found unused topics:")
       ELSE Echo("No unused topics found.")
    /\ pc' = "returned"
    /\ UNCHANGED <<cmd, config, admin_client, consumer, constructed, calls,
                   interrupted, exit_code, delete_vars,
                   health_vars, scan_vars, lag_vars, stale_vars, unused_vars>>

(* ------------------------------ deletion ------------------------------- *)

\* delete_consumer_group, lines 371-378: the safety prompt
DeleteConsumerGroupPrompt ==
    /\ pc = "prompt_group"
    /\ \E line \in Responses :
         /\ typed' = line
         /\ confirm' = Prompt(line, <<"N">>)
         /\ IF NotConfirmed(confirm')
            THEN /\ Echo("Operation cancelled.")
                 /\ pc' = "returned"
            ELSE /\ pc' = "delete_group"
                 /\ UNCHANGED out
    /\ UNCHANGED <<cmd, config, admin_client, consumer, constructed, calls,
                   interrupted, exit_code, client_calls, call_results,
                   health_vars, scan_vars, lag_vars, stale_vars, unused_vars>>

\* delete_consumer_group, lines 380-384: the destructive call
DeleteConsumerGroupExecute ==
    /\ pc = "delete_group"
    /\ client_calls' = Append(client_calls, "delete_consumer_groups")
    /\ \E ok \in BOOLEAN :
         /\ call_results' = Append(call_results, IF ok THEN "done" ELSE "raised")
         /\ Echo(IF ok THEN "Successfully deleted consumer group"
                       ELSE "Error deleting consumer group")
    /\ pc' = "returned"
    /\ UNCHANGED <<cmd, config, admin_client, consumer, constructed, calls,
                   interrupted, exit_code, typed, confirm,
                   health_vars, scan_vars, lag_vars, stale_vars, unused_vars>>

\* delete_topic, lines 391-398: the safety prompt
DeleteTopicPrompt ==
    /\ pc = "prompt_topic"
    /\ \E line \in Responses :
         /\ typed' = line
         /\ confirm' = Prompt(line, <<"N">>)
         /\ IF NotConfirmed(confirm')
            THEN /\ Echo("Operation cancelled.")
                 /\ pc' = "returned"
            ELSE /\ pc' = "delete_topic"
                 /\ UNCHANGED out
    /\ UNCHANGED <<cmd, config, admin_client, consumer, constructed, calls,
                   interrupted, exit_code, client_calls, call_results,
                   health_vars, scan_vars, lag_vars, stale_vars, unused_vars>>

\* a variant that tries the call a second time when the first one raised
DeleteTopicExecute_Retry ==
    /\ pc = "delete_topic"
    /\ \E ok \in BOOLEAN, again \in BOOLEAN :
         IF ok
         THEN /\ client_calls' = Append(client_calls, "delete_topics")
              /\ call_results' = Append(call_results, "done")
              /\ Echo("Successfully deleted topic")
         ELSE /\ client_calls' = client_calls \o <<"delete_topics", "delete_topics">>
              /\ call_results' = call_results \o
                     <<"raised", IF again THEN "done" ELSE "raised">>
              /\ Echo(IF again THEN "Successfully deleted topic"
                            ELSE "Error deleting topic")
    /\ pc' = "returned"
    /\ UNCHANGED <<cmd, config, admin_client, consumer, constructed, calls,
                   interrupted, exit_code, typed, confirm,
                   health_vars, scan_vars, lag_vars, stale_vars, unused_vars>>

\* delete_topic, lines 400-404: the destructive call
DeleteTopicExecute ==
    /\ pc = "delete_topic"
    /\ client_calls' = Append(client_calls, "delete_topics")
    /\ \E ok \in BOOLEAN :
         /\ call_results' = Append(call_results, IF ok THEN "done" ELSE "raised")
         /\ Echo(IF ok THEN "Successfully deleted topic"
                       ELSE "Error deleting topic")
    /\ pc' = "returned"
    /\ UNCHANGED <<cmd, config, admin_client, consumer, constructed, calls,
                   interrupted, exit_code, typed, confirm,
                   health_vars, scan_vars, lag_vars, stale_vars, unused_vars>>

(* --------------------------- end of command ---------------------------- *)

\* the command callback has returned: click ends the process with code 0.
\* Nothing on this path calls KafkaLens.close().
CliExit ==
    /\ pc = "returned"
    /\ pc' = "exited"
    /\ exit_code' = 0
    /\ UNCHANGED <<cmd, config, admin_client, consumer, constructed, calls,
                   interrupted, out, delete_vars,
                   health_vars, scan_vars, lag_vars, stale_vars, unused_vars>>

Next ==
    \/ GetAdminClient
    \/ HealthCheck
    \/ CheckLagBegin
    \/ CheckLagGroup
    \/ CheckLagPartition
    \/ CheckLagStore
    \/ CheckLagReport
    \/ FindStaleBegin
    \/ FindStaleGroup
    \/ FindStaleReport
    \/ GetConsumer
    \/ FindUnusedBegin
    \/ FindUnusedTopic
    \/ FindUnusedPartition
    \/ FindUnusedClassify
    \/ FindUnusedReport
    \/ DeleteConsumerGroupPrompt
    \/ DeleteConsumerGroupExecute
    \/ DeleteTopicPrompt
    \/ DeleteTopicExecute
    \/ CliExit

Spec == Init /\ [][Next]_vars

(* ------------------------- one instance, many calls -------------------- *)

\* A program that uses KafkaLens as a library (example_usage.py) calls several
\* command methods on one instance and then close(). Between the calls only
\* self.config, self.admin_client and self.consumer live on.

\* a command method from its first statement after the _get_* calls to its
\* return: Spec follows it step by step; here only its effect on the
\* instance counts, and none of the bodies assigns self.admin_client or
\* self.consumer
CommandBody ==
    /\ pc \in ({ Body(c) : c \in Commands } \ {"get_consumer"})
                \cup {"find_unused_topics"}
    /\ pc' = "returned"
    /\ UNCHANGED <<cmd, config, admin_client, consumer, exit_code, out,
                   constructed, calls, interrupted, delete_vars, health_vars,
                   scan_vars, lag_vars, stale_vars, unused_vars>>

\* the caller goes on to call another command method on the same instance
Call ==
    /\ pc = "returned"
    /\ calls < MaxCalls
    /\ \E c \in Commands : cmd' = c
    /\ calls' = calls + 1
    /\ pc' = "get_admin"
    /\ UNCHANGED <<config, admin_client, consumer, exit_code, out, constructed,
                   interrupted, delete_vars, health_vars, scan_vars, lag_vars,
                   stale_vars, unused_vars>>

\* close, lines 406-411: each client that was created is closed; the
\* attributes keep referring to the closed objects
Close ==
    /\ pc = "returned"
    /\ admin_client' = IF admin_client # "None" THEN "closed" ELSE admin_client
    /\ consumer' = IF consumer # "None" THEN "closed" ELSE consumer
    /\ UNCHANGED <<pc, cmd, config, exit_code, out, constructed, calls,
                   interrupted, delete_vars, health_vars, scan_vars, lag_vars,
                   stale_vars, unused_vars>>

SessionNext ==
    \/ GetAdminClient
    \/ GetConsumer
    \/ CommandBody
    \/ Call
    \/ Close

SpecSession == Init /\ [][SessionNext]_vars

(* ------------------------------ interrupt ------------------------------ *)

\* The user interrupts the running process (Ctrl-C). Nothing in KafkaLens
\* catches KeyboardInterrupt (its handlers catch Exception), and at a prompt
\* click.prompt turns it into click's Abort. Either way it surfaces inside
\* cli(), the click group that line 487 and the console_scripts of setup.py
\* call in standalone mode: click prints "Aborted!" and ends the process with
\* code 1. The handler of lines 488-490 stands behind cli() and is not reached.
Interrupt ==
    /\ pc # "exited"
    /\ interrupted' = TRUE
    /\ Echo("Aborted!")
    /\ exit_code' = 1
    /\ pc' = "exited"
    /\ UNCHANGED <<cmd, config, admin_client, consumer, constructed, calls,
                   delete_vars, health_vars, scan_vars, lag_vars, stale_vars,
                   unused_vars>>

\* the command line tool with a user who may interrupt it at any moment
SpecInterrupted == Init /\ [][Next \/ Interrupt]_vars

(* ======================================================================= *)
(*                               Properties                                *)
(* ======================================================================= *)

Last(seq) == seq[Len(seq)]

IsDeleteCommand == cmd \in {"delete_consumer_group", "delete_topic"}

\* the prompt of a delete command has been answered
Answered ==
    /\ IsDeleteCommand
    /\ \/ pc \in {"delete_group", "delete_topic", "returned"}
       \/ pc = "exited" /\ exit_code = 0

\* C1: in both delete commands the destructive client call is made only when
\* the response typed at the prompt is 'y' or 'Y'; after any other response,
\* the empty one included, the command ends with "Operation cancelled." and
\* no destructive call has been made.
C1_DeleteOnlyOnYes ==
    /\ client_calls # <<>> => Answered /\ typed \in { <<"y">>, <<"Y">> }
    /\ Answered /\ typed \notin { <<"y">>, <<"Y">> } =>
         /\ client_calls = <<>>
         /\ pc \in {"returned", "exited"}
         /\ Last(out) = "Operation cancelled."
    /\ \A k \in 1..Len(client_calls) :
         client_calls[k] = (IF cmd = "delete_topic" THEN "delete_topics"
                            ELSE "delete_consumer_groups")

\* a bare Enter at the prompt of delete topic: cancelled, nothing was called
C1_Witness ==
    /\ cmd = "delete_topic"
    /\ pc = "exited"
    /\ typed = <<>>
    /\ confirm = <<"N">>
    /\ client_calls = <<>>
    /\ Last(out) = "Operation cancelled."

\* C2: in check_lag the lag is never negative: not while it is accumulated,
\* not when it is stored for the group, not in the report, whatever the
\* committed and end offsets are.
C2_LagNeverNegative ==
    /\ total_lag >= 0
    /\ \A g \in DOMAIN group_lags : group_lags[g] >= 0
    /\ \A line \in lag_report : line.lag >= 0
    /\ \A k \in 1..Len(high_lag_groups) : high_lag_groups[k][2] >= 0

\* a group was reported whose committed offset is ahead of the end offset on
\* every partition it committed to, two of them
C2_Witness ==
    /\ cmd = "check_lag"
    /\ pc = "returned"
    /\ Len(partitions) = 2
    /\ \A tp \in DOMAIN committed_offsets :
         /\ tp \in DOMAIN latest_offsets
         /\ committed_offsets[tp].offset > latest_offsets[tp]
    /\ \E line \in lag_report : line.group = Last(groups) /\ line.lag = 0

\* max(0, a - b), spelled out
ClampedDifference(a, b) == IF a > b THEN a - b ELSE 0

\* the sum over the partitions ps of the clamped difference between the end
\* offsets `ends` and the committed offsets
RECURSIVE ClampedSum(_, _)
ClampedSum(ps, ends) ==
    IF ps = {} THEN 0
    ELSE LET tp == CHOOSE x \in ps : TRUE
         IN  ClampedDifference(ends[tp], committed_offsets[tp].offset)
             + ClampedSum(ps \ {tp}, ends)

\* the lag of the group before group_idx has just been stored, and the
\* offsets in the state are that group's
JustStored ==
    /\ pc = "lag_group"
    /\ group_idx > 1
    /\ groups[group_idx - 1] \in DOMAIN group_lags

\* C3 as stated: the lag stored for a group is the sum over ALL the partitions
\* it committed to of max(0, end offset - committed offset).
C3_LagIsSumOverCommitted ==
    JustStored =>
        group_lags[groups[group_idx - 1]] = ClampedSum(DOMAIN committed_offsets, log_end)

\* C3, amended: the lag stored for a group is the sum of
\* max(0, end offset - committed offset) over the partitions it committed to
\* that the end-offset answer holds; a stored lag never changes; and the
\* report gives every stored group with its lag, flagged HIGH LAG exactly when
\* the lag is strictly greater than the threshold.
C3_LagIsSumOverAnswered ==
    [][ /\ (pc = "lag_partition" /\ pc' = "lag_group") =>
             /\ group_id \in DOMAIN group_lags'
             /\ group_lags'[group_id] = ClampedSum(DOMAIN latest_offsets, latest_offsets)
        /\ pc # "check_lag" =>
             \A g \in DOMAIN group_lags :
                 g \in DOMAIN group_lags' /\ group_lags'[g] = group_lags[g]
        /\ (pc = "lag_group" /\ pc' = "returned") =>
             /\ \A g \in DOMAIN group_lags :
                    \E line \in lag_report' :
                        /\ line.group = g
                        /\ line.lag = group_lags[g]
             /\ \A line \in lag_report' :
                    /\ line.group \in DOMAIN group_lags
                    /\ line.lag = group_lags[line.group]
                    /\ line.high <=> line.lag > config.lag_threshold
             /\ \A g \in DOMAIN group_lags :
                    (\E k \in 1..Len(high_lag_groups') : high_lag_groups'[k][1] = g)
                        <=> group_lags[g] > config.lag_threshold
      ]_vars

\* committed 100 and end 350 on the one partition: lag 250, reported normal at
\* the default threshold
C3_Witness ==
    /\ cmd = "check_lag"
    /\ pc = "returned"
    /\ config.lag_threshold = DefaultLagThreshold
    /\ groups = <<"g1">>
    /\ DOMAIN committed_offsets = { <<"topicA", 0>> }
    /\ committed_offsets[<<"topicA", 0>>].offset = 100
    /\ latest_offsets = [tp \in { <<"topicA", 0>> } |-> 350]
    /\ lag_report = { [group |-> "g1", lag |-> 250, high |-> FALSE] }

\* the step just taken examined one group of find_stale_consumers
StaleGroupStep ==
    /\ pc = "stale_group"
    /\ pc' = "stale_group"
    /\ group_idx' = group_idx + 1

\* stale_groups only grows, by entries added at its end
StaleGroupsKept ==
    /\ Len(stale_groups') >= Len(stale_groups)
    /\ SubSeq(stale_groups', 1, Len(stale_groups)) = stale_groups

\* C4: in find_stale_consumers, every group whose offset query answers with
\* an empty map is put on the stale list with the reason "No commits",
\* whatever the threshold and the time; it stays on the list, and a
\* non-empty list is reported.
C4_EmptyIsStale ==
    [][ /\ (StaleGroupStep /\ raised' = raised /\ offsets' = <<>>) =>
             stale_groups' = Append(stale_groups,
                 <<groups[group_idx], [text |-> "No commits", tenths |-> 0]>>)
        /\ pc = "stale_group" => StaleGroupsKept
        /\ (pc = "stale_group" /\ pc' = "returned") =>
             /\ stale_groups' = stale_groups
             /\ stale_groups # <<>> <=> Last(out') = "Found stale consumer groups:"
      ]_vars

\* both groups have no commits and both are listed, at the default threshold
C4_Witness ==
    /\ cmd = "find_stale_consumers"
    /\ pc = "returned"
    /\ config.stale_consumer_days = DefaultStaleDays
    /\ raised = <<>>
    /\ offsets = <<>>
    /\ stale_groups = << <<"g1", [text |-> "No commits", tenths |-> 0]>>,
                         <<"g2", [text |-> "No commits", tenths |-> 0]>> >>
    /\ Last(out) = "Found stale consumer groups:"

\* C5: in find_stale_consumers the threshold instant is the time of the
\* command minus the configured number of days; a group with commits is
\* listed if and only if its newest commit (every one of its commits, that
\* is) is older than that instant; the listed age is the time since the
\* newest commit in days, to one decimal, and is at least the threshold.
C5_StaleIffNewestIsOld ==
    [][ /\ (pc = "find_stale_consumers" /\ pc' = "stale_group") =>
             threshold_ts' = clock' - config.stale_consumer_days * HoursPerDay
        /\ pc = "stale_group" => threshold_ts' = threshold_ts /\ clock' >= clock
        /\ (StaleGroupStep /\ raised' = raised /\ offsets' # <<>>) =>
             LET times == { offsets'[tp].commit_timestamp : tp \in DOMAIN offsets' }
                 all_old == \A t \in times : t < threshold_ts
             IN  /\ all_old =>
                       /\ Len(stale_groups') = Len(stale_groups) + 1
                       /\ Last(stale_groups')[1] = groups[group_idx]
                       /\ Last(stale_groups')[2].text = "days old"
                       /\ Last(stale_groups')[2].tenths >= 10 * config.stale_consumer_days
                       /\ \E newest \in times :
                            /\ \A t \in times : t <= newest
                            /\ LET age == clock' - newest
                                   shown == Last(stale_groups')[2].tenths
                               IN  /\ HoursPerDay * shown - 10 * age <= HoursPerDay \div 2
                                   /\ 10 * age - HoursPerDay * shown <= HoursPerDay \div 2
                 /\ ~all_old => stale_groups' = stale_groups
      ]_vars

\* a group with an old and an older commit is listed as "30.0 days old"
C5_Witness ==
    /\ cmd = "find_stale_consumers"
    /\ pc = "returned"
    /\ config.stale_consumer_days = DefaultStaleDays
    /\ Cardinality({ offsets[tp].commit_timestamp : tp \in DOMAIN offsets }) = 2
    /\ stale_groups # <<>>
    /\ Last(stale_groups) = <<Last(groups), [text |-> "days old", tenths |-> 300]>>

\* C6: in find_unused_topics a topic is put on the unused list only by the
\* verdict on that topic itself, and only if one of its partitions has an
\* end offset above 0: a topic without partitions, or with every partition
\* at end offset 0, is never listed, whatever was scanned before it.
C6_EmptyTopicNeverUnused ==
    [][ unused_topics' # unused_topics =>
          \/ pc = "find_unused_topics" /\ unused_topics' = <<>>
          \/ /\ pc = "unused_partition"
             /\ partition_idx > Len(topic_partitions)
             /\ Len(unused_topics') = Len(unused_topics) + 1
             /\ SubSeq(unused_topics', 1, Len(unused_topics)) = unused_topics
             /\ Last(unused_topics')[1] = non_internal_topics[topic_idx]
             /\ topic_partitions # <<>>
             /\ \E p \in DOMAIN end_offsets : end_offsets[p] > 0
      ]_vars

\* the second topic has two partitions, both at end offset 0, and is not
\* listed; the first one is, and one of its records is still to be fetched
C6_Witness ==
    /\ cmd = "find_unused_topics"
    /\ pc = "returned"
    /\ raised = <<>>
    /\ Len(non_internal_topics) = 2
    /\ DOMAIN end_offsets = {0, 1}
    /\ \A p \in DOMAIN end_offsets : end_offsets[p] = 0
    /\ fetchable # <<>>
    /\ Len(unused_topics) = 1
    /\ unused_topics[1][1] = non_internal_topics[1]

\* health_check has reported a verdict (no client call raised)
HealthVerdict ==
    /\ cmd = "health_check"
    /\ pc \in {"returned", "exited"}
    /\ out # <<>>
    /\ Last(out) # "Error during health check"
    /\ Last(out) # "Error connecting to Kafka cluster"

\* C7: when the metadata was fetched, health_check reports the cluster healthy
\* if and only if connected brokers = total brokers and the under-replicated
\* count is 0; otherwise it reports issues.
C7_HealthyIff ==
    /\ HealthVerdict =>
         /\ Last(out) \in {"Cluster is healthy!", "Cluster has issues that need attention."}
         /\ Last(out) = "Cluster is healthy!" <=>
                (connected_brokers = total_brokers /\ urp_count = 0)
    /\ (cmd = "health_check" /\ pc = "returned") => Len(out) = 1

\* all brokers are connected, one partition is under-replicated: issues
C7_Witness ==
    /\ HealthVerdict
    /\ connected_brokers = total_brokers
    /\ total_brokers = MaxBrokers
    /\ urp_count = 1
    /\ Last(out) = "Cluster has issues that need attention."

\* the name begins with two underscores
TwoUnderscores(t) == Len(t) >= 2 /\ t[1] = "_" /\ t[2] = "_"

\* the under-replicated partitions of the cluster's topics ts
UnderReplicated(ts) ==
    { tp \in PartitionsOf(cluster_topics) :
        /\ tp[1] \in ts
        /\ Cardinality(cluster_topics[tp[1]][tp[2]].isr)
             < Cardinality(cluster_topics[tp[1]][tp[2]].replicas) }

\* C8: the under-replicated count of health_check is the number of partitions
\* of topics not beginning with '__' whose isr is smaller than their replica
\* set; a partition of a '__' topic never counts.
C8_UrpCount ==
    HealthVerdict =>
        urp_count = Cardinality(UnderReplicated(
                        { t \in DOMAIN cluster_topics : ~TwoUnderscores(t) }))

\* the internal topic has under-replicated partitions, so has the topic "_x",
\* and only the latter's are counted
C8_Witness ==
    /\ HealthVerdict
    /\ DOMAIN cluster_topics = AllTopics
    /\ Cardinality(UnderReplicated({ <<"_", "_", "c">> })) = 2
    /\ Cardinality(UnderReplicated({ <<"_", "x">> })) = 1
    /\ urp_count = 1

\* the loop position and the list of a scan, and what the scan has found
ScanPc == CASE cmd = "check_lag" -> "lag_group"
            [] cmd = "find_stale_consumers" -> "stale_group"
            [] OTHER -> "unused_topic"
ScanIdx == IF cmd = "find_unused_topics" THEN topic_idx ELSE group_idx
ScanList == IF cmd = "find_unused_topics" THEN non_internal_topics ELSE groups
ScanFound == <<group_lags, stale_groups, unused_topics>>

C10_ConnectionsReleased ==
    pc = "exited" => admin_client # "open" /\ consumer # "open"


(* --------------------------------- C11 --------------------------------- *)

\* C11: a user interrupt arriving during any phase of any command ends the
\* process with the cancellation message and exit code 0, never with exit
\* code 1.
C11_InterruptExitsZero ==
    (interrupted /\ pc = "exited") =>
        /\ exit_code = 0
        /\ Last(out) = "Operation cancelled by user."


(* --------------------------------- C12 --------------------------------- *)

\* the verdict on the current topic is being given, every one of its
\* partitions with messages having been sought to its last record and polled
\* without a call raising
UnusedVerdictStep ==
    /\ pc = "unused_partition"
    /\ partition_idx > Len(topic_partitions)
    /\ pc' = "unused_topic"
    /\ DOMAIN last_message # {}

\* the newest of the last records of the current topic's own partitions
LastActivity == MaxOf({ last_message[p] : p \in DOMAIN last_message })

\* C12: in find_unused_topics the verdict on a topic that has messages is
\* decided by its last activity, the newest timestamp among the last records
\* of its own partitions with end offset above 0: the topic is listed as
\* unused if and only if that instant lies before the threshold, whatever a
\* poll returned.
C12_VerdictFromOwnLastRecords ==
    [][ UnusedVerdictStep =>
          /\ DOMAIN last_message = { p \in DOMAIN end_offsets : end_offsets[p] > 0 }
          /\ (unused_topics' # unused_topics) <=> (LastActivity < threshold_ts)
      ]_vars


(* --------------------------------- C13 --------------------------------- *)

\* the destructive call of the running delete command, and its two messages
DeleteCall ==
    IF cmd = "delete_topic" THEN "delete_topics" ELSE "delete_consumer_groups"
DeleteSuccess ==
    IF cmd = "delete_topic" THEN "Successfully deleted topic"
    ELSE "Successfully deleted consumer group"
DeleteError ==
    IF cmd = "delete_topic" THEN "Error deleting topic"
    ELSE "Error deleting consumer group"

\* the delete command was confirmed and has gone past its destructive call
Executed ==
    /\ IsDeleteCommand
    /\ pc \in {"returned", "exited"}
    /\ ~NotConfirmed(confirm)
    /\ confirm # <<>>

\* C13: a confirmed delete command makes its destructive client call exactly
\* once and no other client call that changes the cluster; when the call
\* raises, the error is the last thing reported, no success message is
\* printed, the call is not made again, and the command returns normally:
\* the process ends with code 0, never 1.
C13_DeleteCalledOnce ==
    /\ Len(client_calls) <= 1
    /\ Len(call_results) = Len(client_calls)
    /\ pc \in {"delete_group", "delete_topic"} => client_calls = <<>>
    /\ Executed =>
         /\ client_calls = <<DeleteCall>>
         /\ exit_code = (IF pc = "exited" THEN 0 ELSE -1)
         /\ call_results = <<"raised">> =>
               /\ Last(out) = DeleteError
               /\ \A k \in 1..Len(out) : out[k] # DeleteSuccess
         /\ call_results = <<"done">> => Last(out) = DeleteSuccess

\* delete topic was confirmed with 'Y', the call raised, and the process has
\* ended with code 0 after the error message
C13_Witness ==
    /\ cmd = "delete_topic"
    /\ pc = "exited"
    /\ typed = <<"Y">>
    /\ client_calls = <<"delete_topics">>
    /\ call_results = <<"raised">>
    /\ Last(out) = "Error deleting topic"
    /\ exit_code = 0


(* --------------------------------- C14 --------------------------------- *)

\* C14: the four inspection commands leave the cluster as it is on every
\* path, the error paths included: none of them makes a destructive client
\* call, and the consumer of find_unused_topics commits no position for what
\* it polls.
C14_InspectionReadOnly ==
    ~IsDeleteCommand =>
        /\ client_calls = <<>>
        /\ call_results = <<>>
        /\ commits = {}

\* find_unused_topics has ended after polling a record that put a topic on
\* the list and after a call raised for another topic; nothing was deleted
\* and nothing committed
C14_Witness ==
    /\ cmd = "find_unused_topics"
    /\ pc = "exited"
    /\ unused_topics # <<>>
    /\ raised # <<>>
    /\ client_calls = <<>>
    /\ commits = {}


(* --------------------------------- C15 --------------------------------- *)

\* the constructions of clients of class `class`
Constructions(class) ==
    { k \in 1..Len(constructed) : constructed[k][1] = class }

\* under Spec: past its _get_* calls no command touches the two attributes
BodiesKeepClients ==
    [][ pc \notin {"get_admin", "get_consumer"} =>
          UNCHANGED <<admin_client, consumer, constructed>> ]_vars

\* C15: over any sequence of command calls on one instance the admin client
\* is constructed at most once and the consumer at most once; the first call
\* that needs a client creates it (a command past its _get_* calls holds
\* one), later calls find the attribute set and construct nothing, also
\* after close(); and the consumer is constructed only by find_unused_topics.
C15_ConstructedOnce ==
    /\ Cardinality(Constructions("KafkaAdminClient")) =
           (IF admin_client = "None" THEN 0 ELSE 1)
    /\ Cardinality(Constructions("KafkaConsumer")) =
           (IF consumer = "None" THEN 0 ELSE 1)
    /\ \A k \in Constructions("KafkaConsumer") :
           constructed[k][2] = "find_unused_topics"
    /\ pc \notin {"get_admin", "exited"} => admin_client # "None"
    /\ pc = "find_unused_topics" => consumer # "None"
    /\ \A k \in 1..Len(constructed) : constructed[k][3] <= calls

\* the first call, health_check, created the admin client, the second,
\* find_unused_topics, created the consumer, and the third call, again
\* find_unused_topics, has returned without constructing anything
C15_Witness ==
    /\ calls = 3
    /\ cmd = "find_unused_topics"
    /\ pc = "returned"
    /\ constructed = << <<"KafkaAdminClient", "health_check", 1>>,
                        <<"KafkaConsumer", "find_unused_topics", 2>> >>

====
